---- MODULE Spec2Model ----
(***************************************************************************)
(* Model of cmd/sky/builder.go: the build / deploy orchestrator of sky.    *)
(*                                                                         *)
(* One run of the program is one behaviour.  The run starts in one of the  *)
(* entry points (Build, Deploy), or in a direct call of builder.deploy on  *)
(* a freshly constructed builder (entry "deploy"), which is how a host     *)
(* list other than ["localhost"] reaches the method.                       *)
(*                                                                         *)
(* Strings that the code takes apart (host specs) are sequences of         *)
(* one-character strings; paths are sequences of path elements; commands   *)
(* are sequences of words.  Every call the builder makes on the terminal,  *)
(* on the scm and on os/exec is appended to log, and a blocking call is    *)
(* two steps: the call is issued (ret = "pending") and it returns          *)
(* (ret = "ok" or "err").  A Go panic with no recover ends the process at  *)
(* once: the code has no defer, so nothing runs after it.                  *)
(***************************************************************************)
EXTENDS Integers, Sequences, FiniteSets, TLC

\* ---------------------------------------------------------------- bounds
MaxCmds == 2

MaxHosts == 3

MaxHostLen == 3

\* ------------------------------------------------------ strings and paths
Localhost == <<"l", "o", "c", "a", "l", "h", "o", "s", "t">>

Loopback == <<"1", "2", "7", ".", "0", ".", "0", ".", "1">>

EmptyString == <<>>

DefaultPort == <<"2", "2">>

\* strings.Split(s, ":"): the pieces of s between the separators
RECURSIVE Split(_)
Split(s) ==
    IF \E k \in 1..Len(s) : s[k] = ":"
    THEN LET k == CHOOSE j \in 1..Len(s) :
                      s[j] = ":" /\ \A m \in 1..(j - 1) : s[m] # ":"
         IN <<SubSeq(s, 1, k - 1)>> \o Split(SubSeq(s, k + 1, Len(s)))
    ELSE <<s>>

\* mutant: the length test is off by one, a single port part is dropped
splitHostPortOffByOne(host) ==
    LET parts == Split(host)
    IN IF Len(parts) <= 2
       THEN <<parts[1], DefaultPort>>
       ELSE <<parts[1], parts[2]>>

splitHostPort(host) ==
    LET parts == Split(host)
    IN IF Len(parts) < 2
       THEN <<parts[1], DefaultPort>>
       ELSE <<parts[1], parts[2]>>

\* mutant: the empty host is not taken for local
isHostLocalButEmpty(host) == host = Localhost \/ host = Loopback

isHostLocal(host) ==
    host = Localhost \/ host = Loopback \/ host = EmptyString

\* path.Join: the elements of the given paths, in order; an empty path adds none
RECURSIVE Join(_)
Join(paths) ==
    IF paths = <<>> THEN <<>> ELSE Head(paths) \o Join(Tail(paths))

\* path.Base: the last element of a path
Base(p) == IF Len(p) = 0 THEN <<".">> ELSE <<p[Len(p)]>>

\* ---------------------------------------------------------- configuration
\* All sequences over S of length at most n
SeqsUpTo(S, n) == UNION {[1..k -> S] : k \in 0..n}

RemoteBuildHost == <<"h", ":", "2">>

RemoteDeployHost == <<"w">>

Commands == {"make"}

\* type buildConfig: the values the build section of build.cfg may hold
buildConfig ==
    [Host : {Localhost, RemoteBuildHost},
     User : {<<"u">>},
     Jail : {<<"j">>},
     CgoCFlags : {<<"-I">>},
     CgoLdFlags : {<<"-L">>},
     GoRoot : {<<"goroot">>},
     GoPath : {EmptyString, <<"gopath">>},
     AppRepo : {"repo"},
     AppPath : {<<"cmd", "myapp">>},
     RepoType : {"git", "svn"},
     RepoBranch : {"master"},
     UpdatePackages : BOOLEAN,
     BuildAllPackages : BOOLEAN,
     RunTests : BOOLEAN,
     TestSkynet : BOOLEAN,
     PreBuildCommands : SeqsUpTo(Commands, MaxCmds),
     PostBuildCommands : SeqsUpTo(Commands, MaxCmds)]

\* type deployConfig
deployConfig ==
    [DeployPath : {<<"out">>}, BinaryName : {<<"app">>}]

\* the host lists handed to builder.deploy: Deploy always passes ["localhost"]
HostLists(e) ==
    IF e = "Build" THEN {<<>>}
    ELSE IF e = "Deploy" THEN {<<Localhost>>}
    ELSE SeqsUpTo({Localhost, RemoteDeployHost}, MaxHosts)

VARIABLES
    entry,          \* the entry point of this run: "Build", "Deploy", "deploy"
    BuildConfig,    \* b.BuildConfig
    DeployConfig,   \* b.DeployConfig
    hosts,          \* the argument of builder.deploy
    pc,             \* the statement the run is at
    pending,        \* a blocking call has been issued and has not returned
    log,            \* every call made so far, in order, with its result
    term,           \* b.term: "nil", "LocalTerminal" or "SSHConn"
    scm,            \* b.scm: "nil" or "GitScm"
    valid,          \* the result variable of validateBuildEnvironment
    projectPath,    \* b.projectPath
    projectPathWrites, \* how many times b.projectPath has been assigned
    i,              \* the index of the current range loop or probe
    outcome         \* "running", "returned" or "panicked"

vars ==
    <<entry, BuildConfig, DeployConfig, hosts, pc, pending, log, term, scm,
      valid, projectPath, projectPathWrites, i, outcome>>

config == <<entry, BuildConfig, DeployConfig, hosts>>

Init ==
    /\ entry \in {"Build", "Deploy", "deploy"}
    /\ BuildConfig \in buildConfig
    /\ DeployConfig \in deployConfig
    /\ hosts \in HostLists(entry)
    /\ pc = "newBuilder"
    /\ pending = FALSE
    /\ log = <<>>
    /\ term = "nil"
    /\ scm = "nil"
    /\ valid = FALSE
    /\ projectPath = <<>>
    /\ projectPathWrites = 0
    /\ i = 0
    /\ outcome = "running"

\* ------------------------------------------------------------- the calls
Event(site, idx, op, cmd, dir, ret) ==
    [site |-> site, idx |-> idx, op |-> op, cmd |-> cmd, dir |-> dir,
     argv |-> <<>>, ret |-> ret]

\* mutant: the call is issued without waiting for the one before it
CallWithoutWaiting(ev) ==
    /\ log' = Append(log, ev)
    /\ pending' = TRUE

\* a blocking call is issued
Call(ev) ==
    /\ ~pending
    /\ log' = Append(log, ev)
    /\ pending' = TRUE

\* the blocking call issued last returns, with an error or without
Return(err) ==
    /\ pending
    /\ log' = [log EXCEPT ![Len(log)].ret = IF err THEN "err" ELSE "ok"]
    /\ pending' = FALSE

\* panic(...): no recover and no defer anywhere, the process ends here
Panic ==
    /\ pc' = "exit"
    /\ outcome' = "panicked"

\* control moves on to statement p; reaching "exit" this way is a normal return
Goto(p) ==
    /\ pc' = p
    /\ outcome' = IF p = "exit" THEN "returned" ELSE outcome

\* mutant: the loop ends one element early
LoopPcStopsEarly(list, k, body, after) == IF k < Len(list) THEN body ELSE after

\* a range loop over list: the body for element k, or the statement after it
LoopPc(list, k, body, after) == IF k <= Len(list) THEN body ELSE after

\* what Terminal and Scm implementations may do (their code is in other files)
ConnectErrs == BOOLEAN

CheckoutErrs == BOOLEAN

BinaryName == "git"

ImportPath == <<"github.com", "org", "repo">>

\* ------------------------------------------------------------ newBuilder
\* mutant: Deploy runs the build pipeline like Build does
AfterNewBuilderAlwaysBuilds ==
    IF entry \in {"Build", "Deploy"} THEN "setupScm"
    ELSE LoopPc(hosts, 1, "deploy", "exit")

\* Build / Deploy: what runs once newBuilder has returned
AfterNewBuilder ==
    IF entry = "Build" THEN "setupScm"
    ELSE LoopPc(hosts, 1, "deploy", IF entry = "Deploy" THEN "close" ELSE "exit")

\* newBuilder: read and parse the configuration file
newBuilderConfig ==
    /\ pc = "newBuilder"
    /\ \E readErr \in BOOLEAN, parseErr \in BOOLEAN :
          IF readErr \/ parseErr THEN Panic ELSE Goto("newBuilderTerm")
    /\ UNCHANGED <<config, pending, log, term, scm, valid, projectPath,
                   projectPathWrites, i>>

\* newBuilder: choose the terminal; a remote one is connected
newBuilderTerm ==
    /\ pc = "newBuilderTerm"
    /\ IF isHostLocal(BuildConfig.Host)
       THEN /\ term' = "LocalTerminal"
            /\ Goto("validatePackage")
            /\ UNCHANGED <<log, pending>>
       ELSE /\ term' = "SSHConn"
            /\ Call(Event("connect", 0, "Connect",
                          BuildConfig.Host \o <<" ">> \o BuildConfig.User,
                          <<>>, "pending"))
            /\ Goto("connect")
    /\ UNCHANGED <<config, scm, valid, projectPath, projectPathWrites, i>>

\* sshClient.Connect returns, or fails fatally
newBuilderConnect ==
    /\ pc = "connect"
    /\ \E err \in ConnectErrs :
          /\ Return(err)
          /\ IF err THEN Panic ELSE Goto("validatePackage")
    /\ UNCHANGED <<config, term, scm, valid, projectPath, projectPathWrites, i>>

validatePackage ==
    /\ pc = "validatePackage"
    /\ \E importErr \in BOOLEAN, isCommand \in BOOLEAN :
          IF importErr \/ ~isCommand THEN Panic ELSE Goto(AfterNewBuilder)
    /\ i' = 1
    /\ UNCHANGED <<config, pending, log, term, scm, valid, projectPath,
                   projectPathWrites>>

\* ---------------------------------------------------------- performBuild
setupScm ==
    /\ pc = "setupScm"
    /\ IF BuildConfig.RepoType = "git"
       THEN scm' = "GitScm" /\ Goto("validateBuildEnvironment")
       ELSE scm' = scm /\ Panic
    /\ i' = 1
    /\ UNCHANGED <<config, pending, log, term, valid, projectPath,
                   projectPathWrites>>

NumProbes == 4

ProbeSites == <<"probeJail", "probeGoRoot", "probeGoBinary", "probeScmBinary">>

\* the command of the k-th probe of validateBuildEnvironment
ProbeCmd(k) ==
    CASE k = 1 -> <<"ls">> \o BuildConfig.Jail
      [] k = 2 -> <<"ls">> \o BuildConfig.GoRoot
      [] k = 3 -> <<"ls">> \o BuildConfig.GoRoot \o <<"bin", "go">>
      [] OTHER -> <<"which", BinaryName>>

\* mutant: every probe overwrites the result, so the last probe decides
validAfterProbeLastWins(v, err) == ~err

\* if err != nil { ...; valid = false }
validAfterProbe(v, err) == IF err THEN FALSE ELSE v

\* the probe that follows probe k returning with err: all four are always made
NextProbe(k, err) == k + 1

\* mutant: the result of the validation is not looked at
AfterValidateIgnoresResult(v) == "updateCode"

\* mutant: a valid environment goes straight to the environment variables
AfterValidateSkipsUpdateCode(v) == IF v THEN "setEnv" ELSE "close"

\* performBuild: if b.validateBuildEnvironment() { ... }
AfterValidate(v) == IF v THEN "updateCode" ELSE "close"

validateBuildEnvironment ==
    /\ pc = "validateBuildEnvironment"
    /\ \/ /\ Call(Event(ProbeSites[i], i, "Exec", ProbeCmd(i), <<>>, "pending"))
          /\ valid' = IF i = 1 THEN TRUE ELSE valid
          /\ UNCHANGED <<pc, outcome, i>>
       \/ \E err \in BOOLEAN :
             /\ Return(err)
             /\ valid' = validAfterProbe(valid, err)
             /\ i' = NextProbe(i, err)
             /\ IF i' <= NumProbes
                THEN UNCHANGED <<pc, outcome>>
                ELSE Goto(AfterValidate(valid'))
    /\ UNCHANGED <<config, term, scm, projectPath, projectPathWrites>>

\* ------------------------------------------------------------ updateCode
\* b.projectPath = path.Join(b.BuildConfig.Jail, "src", p)
ProjectPathOf(p) == Join(<<BuildConfig.Jail, <<"src">>, p>>)

\* p, err := b.scm.ImportPathFromRepo(...); the assignment; if err != nil { panic }
updateCodeImportPath ==
    /\ pc = "updateCode"
    /\ ~pending
    /\ \E err \in BOOLEAN :
          LET p == IF err THEN <<>> ELSE ImportPath
          IN /\ log' = Append(log, Event("importPath", 0, "ImportPathFromRepo",
                                         <<BuildConfig.AppRepo>>, <<>>,
                                         IF err THEN "err" ELSE "ok"))
             /\ projectPath' = ProjectPathOf(p)
             /\ projectPathWrites' = projectPathWrites + 1
             /\ IF err THEN Panic ELSE Goto("lsProject")
    /\ UNCHANGED <<config, pending, term, scm, valid, i>>

\* out, err := b.term.Exec("ls " + b.projectPath)
updateCodeList ==
    /\ pc = "lsProject"
    /\ \/ /\ Call(Event("lsProject", 0, "Exec", <<"ls">> \o projectPath,
                        <<>>, "pending"))
          /\ UNCHANGED <<pc, outcome>>
       \/ \E err \in BOOLEAN :
             /\ Return(err)
             /\ Goto(IF err THEN "mkdir" ELSE "checkout")
    /\ UNCHANGED <<config, term, scm, valid, projectPath, projectPathWrites, i>>

\* mutant: the error of mkdir is dropped
updateCodeMkdirIgnoresErr ==
    /\ pc = "mkdir"
    /\ \/ /\ Call(Event("mkdir", 0, "Exec", <<"mkdir", "-p">> \o projectPath,
                        <<>>, "pending"))
          /\ UNCHANGED <<pc, outcome>>
       \/ \E err \in BOOLEAN :
             /\ Return(err)
             /\ Goto("checkout")
    /\ UNCHANGED <<config, term, scm, valid, projectPath, projectPathWrites, i>>

\* out, err = b.term.Exec("mkdir -p " + b.projectPath)
updateCodeMkdir ==
    /\ pc = "mkdir"
    /\ \/ /\ Call(Event("mkdir", 0, "Exec", <<"mkdir", "-p">> \o projectPath,
                        <<>>, "pending"))
          /\ UNCHANGED <<pc, outcome>>
       \/ \E err \in BOOLEAN :
             /\ Return(err)
             /\ IF err THEN Panic ELSE Goto("checkout")
    /\ UNCHANGED <<config, term, scm, valid, projectPath, projectPathWrites, i>>

\* b.scm.SetTerminal(b.term); b.scm.Checkout(AppRepo, RepoBranch, projectPath)
updateCodeCheckout ==
    /\ pc = "checkout"
    /\ \/ /\ ~pending
          /\ log' = log \o
                <<Event("setTerminal", 0, "SetTerminal", <<term>>, <<>>, "ok"),
                  Event("checkout", 0, "Checkout",
                        <<BuildConfig.AppRepo, BuildConfig.RepoBranch>>,
                        projectPath, "pending")>>
          /\ pending' = TRUE
          /\ UNCHANGED <<pc, outcome>>
       \/ \E err \in CheckoutErrs :
             /\ Return(err)
             /\ IF err THEN Panic ELSE Goto("setEnv")
    /\ UNCHANGED <<config, term, scm, valid, projectPath, projectPathWrites, i>>

\* ---------------------------------------------------- performBuild, cont.
goPath ==
    IF BuildConfig.GoPath # EmptyString
    THEN BuildConfig.Jail \o <<":">> \o BuildConfig.GoPath
    ELSE BuildConfig.Jail

SetEnvEvent(name, value) ==
    Event("setEnv", 0, "SetEnv", <<name>> \o value, <<>>, "ok")

\* the statement after runCommands(cmds) in performBuild
AfterCommands(site) == IF site = "pre" THEN "updateDependencies" ELSE "close"

CommandsOf(site) ==
    IF site = "pre" THEN BuildConfig.PreBuildCommands
    ELSE BuildConfig.PostBuildCommands

\* the four b.term.SetEnv calls, then on to runCommands(PreBuildCommands)
performBuildSetEnv ==
    /\ pc = "setEnv"
    /\ ~pending
    /\ log' = log \o <<SetEnvEvent("GOPATH", goPath),
                       SetEnvEvent("GOROOT", BuildConfig.GoRoot),
                       SetEnvEvent("CGO_CFLAGS", BuildConfig.CgoCFlags),
                       SetEnvEvent("CGO_LDFLAGS", BuildConfig.CgoLdFlags)>>
    /\ i' = 1
    /\ Goto(LoopPc(CommandsOf("pre"), 1, "pre", AfterCommands("pre")))
    /\ UNCHANGED <<config, pending, term, scm, valid, projectPath,
                   projectPathWrites>>

\* mutant: the error of a command is dropped and the loop goes on
runCommandsNextIgnoresErr(site, k, err) ==
    LoopPc(CommandsOf(site), k + 1, site, AfterCommands(site))

\* runCommands: what follows the command at position k returning with err
runCommandsNext(site, k, err) ==
    IF err THEN "panic"
    ELSE LoopPc(CommandsOf(site), k + 1, site, AfterCommands(site))

runCommands(site) ==
    /\ pc = site
    /\ \/ /\ Call(Event(site, i, "Exec", <<CommandsOf(site)[i]>>, <<>>, "pending"))
          /\ UNCHANGED <<pc, outcome, i>>
       \/ \E err \in BOOLEAN :
             /\ Return(err)
             /\ IF runCommandsNext(site, i, err) = "panic"
                THEN Panic /\ i' = i
                ELSE /\ Goto(runCommandsNext(site, i, err))
                     /\ i' = IF pc' = site THEN i + 1 ELSE 1
    /\ UNCHANGED <<config, term, scm, valid, projectPath, projectPathWrites>>

\* "go get " + strings.Join(flags, " ") + " ./..."
GoGetCmd ==
    <<"go", "get", "-d">>
        \o (IF BuildConfig.UpdatePackages THEN <<"-u">> ELSE <<>>)
        \o <<"./...">>

\* "go install " + flags
GoInstallCmd ==
    <<"go", "install", "-v">>
        \o (IF BuildConfig.BuildAllPackages THEN <<"-a">> ELSE <<>>)

\* path.Join(b.projectPath, b.BuildConfig.AppPath)
AppDir == Join(<<projectPath, BuildConfig.AppPath>>)

\* path.Join(b.BuildConfig.Jail, "src/github.com/skynetservices/skynet2")
SkynetDir ==
    Join(<<BuildConfig.Jail,
           <<"src", "github.com", "skynetservices", "skynet2">>>>)

\* the start of runCommands(PostBuildCommands)
PostStart == LoopPc(CommandsOf("post"), 1, "post", AfterCommands("post"))

\* mutant: the error of ExecPath is dropped
ExecPathIgnoresErr(site, cmd, dir, next) ==
    /\ pc = site
    /\ \/ /\ Call(Event(site, 0, "ExecPath", cmd, dir, "pending"))
          /\ UNCHANGED <<pc, outcome>>
       \/ \E err \in BOOLEAN :
             /\ Return(err)
             /\ Goto(next)
    /\ UNCHANGED <<config, term, scm, valid, projectPath, projectPathWrites, i>>

\* a call of b.term.ExecPath whose error is fatal, made at statement site
ExecPathOrPanic(site, cmd, dir, next) ==
    /\ pc = site
    /\ \/ /\ Call(Event(site, 0, "ExecPath", cmd, dir, "pending"))
          /\ UNCHANGED <<pc, outcome>>
       \/ \E err \in BOOLEAN :
             /\ Return(err)
             /\ IF err THEN Panic ELSE Goto(next)
    /\ UNCHANGED <<config, term, scm, valid, projectPath, projectPathWrites, i>>

getPackageDependencies(site, p, next) ==
    ExecPathOrPanic(site, GoGetCmd, p, next)

updateDependencies ==
    getPackageDependencies("updateDependencies", AppDir, "buildProject")

\* mutant: the tests run whatever RunTests says
AfterBuildAlwaysTests == "runTests"

\* performBuild: if b.BuildConfig.RunTests { b.runTests() }
AfterBuild == IF BuildConfig.RunTests THEN "runTests" ELSE PostStart

buildProject ==
    ExecPathOrPanic("buildProject", GoInstallCmd, AppDir, AfterBuild)

\* runTests: if b.BuildConfig.TestSkynet { b.testSkynet() }
AfterTests == IF BuildConfig.TestSkynet THEN "testSkynetGet" ELSE PostStart

runTests ==
    ExecPathOrPanic("runTests", <<"go", "test">>, AppDir, AfterTests)

\* mutant: the internal project is tested before its dependencies are fetched
testSkynetTestFirst ==
    \/ ExecPathOrPanic("testSkynetGet", <<"go", "test", "./...">>, SkynetDir,
                       "testSkynetTest")
    \/ getPackageDependencies("testSkynetTest", SkynetDir, PostStart)

testSkynet ==
    \/ getPackageDependencies("testSkynetGet", SkynetDir, "testSkynetTest")
    \/ ExecPathOrPanic("testSkynetTest", <<"go", "test", "./...">>, SkynetDir,
                       PostStart)

\* mutant: the terminal is closed a second time on the way out
CloseTwice ==
    /\ pc = "close"
    /\ ~pending
    /\ log' = log \o <<Event("close", 0, "Close", <<>>, <<>>, "ok"),
                       Event("close", 0, "Close", <<>>, <<>>, "ok")>>
    /\ Goto("exit")
    /\ UNCHANGED <<config, pending, term, scm, valid, projectPath,
                   projectPathWrites, i>>

\* Build / Deploy: b.term.Close(), and the entry point returns
Close ==
    /\ pc = "close"
    /\ ~pending
    /\ log' = Append(log, Event("close", 0, "Close", <<>>, <<>>, "ok"))
    /\ Goto("exit")
    /\ UNCHANGED <<config, pending, term, scm, valid, projectPath,
                   projectPathWrites, i>>

\* ---------------------------------------------------------------- deploy
\* the statement after b.deploy(hosts)
AfterDeploy == IF entry = "Deploy" THEN "close" ELSE "exit"

\* mutant: the whole AppPath is appended, not its base name
BinaryPathWithoutBase == Join(<<BuildConfig.Jail, <<"bin">>, BuildConfig.AppPath>>)

\* path.Join(Jail, "bin", path.Base(AppPath))
BinaryPath ==
    Join(<<BuildConfig.Jail, <<"bin">>, Base(BuildConfig.AppPath)>>)

\* path.Join(DeployPath, BinaryName)
DeployTarget == Join(<<DeployConfig.DeployPath, DeployConfig.BinaryName>>)

\* the transfer deploy makes for host: "cp", "scp", or "none" (err stays nil)
Strategy(host) ==
    IF isHostLocal(host) /\ isHostLocal(BuildConfig.Host) THEN "cp"
    ELSE IF isHostLocal(host) /\ ~isHostLocal(BuildConfig.Host) THEN "scp"
    ELSE "none"

TransferArgv(op) ==
    IF op = "cp"
    THEN <<BinaryPath, DeployTarget>>
    ELSE LET hp == splitHostPort(BuildConfig.Host)
         IN <<<<"-P">>, hp[2],
              BuildConfig.User \o <<"@">> \o hp[1] \o <<":">> \o BinaryPath,
              DeployTarget>>

TransferEvent(op) ==
    [Event("deploy", i, op, <<>>, <<>>, "pending") EXCEPT
        !.argv = TransferArgv(op)]

\* mutant: a failed transfer is dropped and the loop goes on
deployNextIgnoresErr(k, err) == LoopPc(hosts, k + 1, "deploy", AfterDeploy)

\* deploy: what follows the iteration for position k ending with err
deployNext(k, err) ==
    IF err THEN "panic" ELSE LoopPc(hosts, k + 1, "deploy", AfterDeploy)

deploy ==
    /\ pc = "deploy"
    /\ \/ /\ Strategy(hosts[i]) # "none"
          /\ Call(TransferEvent(Strategy(hosts[i])))
          /\ UNCHANGED <<pc, outcome, i>>
       \/ /\ Strategy(hosts[i]) = "none"
          /\ ~pending
          /\ Goto(deployNext(i, FALSE))
          /\ i' = i + 1
          /\ UNCHANGED <<log, pending>>
       \/ \E err \in BOOLEAN :
             /\ Return(err)
             /\ IF deployNext(i, err) = "panic"
                THEN Panic /\ i' = i
                ELSE Goto(deployNext(i, err)) /\ i' = i + 1
    /\ UNCHANGED <<config, term, scm, valid, projectPath, projectPathWrites>>

\* ----------------------------------------------------------- the program
Next ==
    \/ newBuilderConfig
    \/ newBuilderTerm
    \/ newBuilderConnect
    \/ validatePackage
    \/ setupScm
    \/ validateBuildEnvironment
    \/ updateCodeImportPath
    \/ updateCodeList
    \/ updateCodeMkdir
    \/ updateCodeCheckout
    \/ performBuildSetEnv
    \/ \E site \in {"pre", "post"} : runCommands(site)
    \/ updateDependencies
    \/ buildProject
    \/ runTests
    \/ testSkynet
    \/ Close
    \/ deploy

Spec == Init /\ [][Next]_vars

\* every step that can be taken is taken: the program is sequential and
\* runs on, and every call that was issued returns
FairSpec == Spec /\ WF_vars(Next)

\* ------------------------------------------- the program, over host specs
\* Host specs: every string of at most MaxHostLen characters over a small
\* alphabet, the local names, and strings that differ little from them
HostSpecs ==
    SeqsUpTo({"h", ":", "2"}, MaxHostLen)
        \cup {Localhost, Loopback, EmptyString,
              SubSeq(Localhost, 1, Len(Localhost) - 1),
              Localhost \o <<":", "2", "2">>,
              Loopback \o <<":", "2">>,
              <<"L">> \o Tail(Localhost),
              <<"h", ":", "2", "2">>,
              <<"h", "h", ":", "2", ":", "2">>}

\* one build.cfg per host spec: every stage enabled, one command in each list
hostConfig ==
    LET fixed == {c \in buildConfig :
                     /\ c.Host = Localhost
                     /\ c.GoPath # EmptyString
                     /\ c.RepoType = "git"
                     /\ c.UpdatePackages /\ c.BuildAllPackages
                     /\ c.RunTests /\ c.TestSkynet
                     /\ Len(c.PreBuildCommands) = 1
                     /\ Len(c.PostBuildCommands) = 1}
    IN {[c EXCEPT !.Host = h] : c \in fixed, h \in HostSpecs}

HostInit ==
    /\ entry \in {"Build", "Deploy", "deploy"}
    /\ BuildConfig \in hostConfig
    /\ DeployConfig \in deployConfig
    /\ hosts \in HostLists(entry)
    /\ pc = "newBuilder"
    /\ pending = FALSE
    /\ log = <<>>
    /\ term = "nil"
    /\ scm = "nil"
    /\ valid = FALSE
    /\ projectPath = <<>>
    /\ projectPathWrites = 0
    /\ i = 0
    /\ outcome = "running"

HostSpec == HostInit /\ [][Next]_vars

\* ------------------------------------------------- reading the call log
Positions == 1..Len(log)

At(site) == {k \in Positions : log[k].site = site}

Ops(ops) == {k \in Positions : log[k].op \in ops}

Failed(k) == log[k].ret = "err"

\* the calls of one kind, in the order they were made
Only(ops) == SelectSeq(log, LAMBDA e : e.op \in ops)

EntryRun == entry \in {"Build", "Deploy"}

IsGoTest(cmd) == Len(cmd) >= 2 /\ cmd[1] = "go" /\ cmd[2] = "test"

\* the call sites of performBuild that issue a build command
BuildSites ==
    {"pre", "updateDependencies", "buildProject", "runTests", "testSkynetGet",
     "testSkynetTest", "post"}

EnvNames == {"GOPATH", "GOROOT", "CGO_CFLAGS", "CGO_LDFLAGS"}

\* ------------------------------------------------------------------- C1
\* C1: a Build or Deploy run that created its terminal has called Close on
\* it by the time the run ends, on each of the exit paths the claim lists
\* (a failed Connect is not among them).
C1_ClosedOnEveryExit ==
    (/\ EntryRun
     /\ pc = "exit"
     /\ term # "nil"
     /\ \A k \in Ops({"Connect"}) : ~Failed(k))
        => Ops({"Close"}) # {}

\* ------------------------------------------------------------------- C2
\* C2: a deploy host that matches neither transfer combination is rejected:
\* the loop never moves past it, the run never returns normally, and no
\* transfer is attempted for it.
C2_UnsupportedHostRejected ==
    \A k \in 1..Len(hosts) :
        Strategy(hosts[k]) = "none" =>
            /\ ~(pc \in {"deploy", "close", "exit"} /\ i > k)
            /\ outcome # "returned"
            /\ \A m \in Ops({"cp", "scp"}) : log[m].idx # k

\* ------------------------------------------------------------------- C3
\* C3: a Build run returns normally only if no probe, import-path
\* derivation, directory creation, pre/post-build command, dependency
\* fetch, build or test failed.
C3_NormalReturnMeansNoFailure ==
    (entry = "Build" /\ outcome = "returned") =>
        \A k \in Positions : Failed(k) => log[k].site = "lsProject"

\* ------------------------------------------------------------------- C4
\* validateBuildEnvironment has returned in this run
Validated ==
    entry = "Build" /\ scm = "GitScm" /\ pc # "validateBuildEnvironment"

\* C4: validateBuildEnvironment issues the four probes in the fixed order,
\* each exactly once, whatever the earlier probes returned, and returns
\* true exactly when all four succeeded.
C4_ProbesAllFourInOrder ==
    LET execs == Only({"Exec"})
        probes == UNION {At(ProbeSites[k]) : k \in 1..NumProbes}
    IN /\ Cardinality(probes) <= NumProbes
       /\ \A k \in 1..NumProbes :
             Len(execs) >= k =>
                /\ execs[k].cmd = ProbeCmd(k)
                /\ execs[k].site = ProbeSites[k]
       /\ Validated =>
             /\ Cardinality(probes) = NumProbes
             /\ Len(execs) >= NumProbes
             /\ valid <=> \A k \in 1..NumProbes : execs[k].ret = "ok"

\* the first probe failed, a later one succeeded, and the function returned
C4_Witness ==
    /\ Validated
    /\ Len(log) >= NumProbes
    /\ \E k \in At("probeJail") : Failed(k)
    /\ \E k \in At("probeScmBinary") : log[k].ret = "ok"
    /\ ~valid

\* ------------------------------------------------------------------- C5
\* C5: once a PreBuildCommand has failed, no command at all is issued to
\* the terminal: no later PreBuildCommand, no fetch, build, test or
\* PostBuildCommand.
C5_PreFailureStopsEverything ==
    \A k \in At("pre") :
        Failed(k) =>
            \A m \in Positions :
                m > k => log[m].op \notin {"Exec", "ExecPath", "SetEnv"}

\* the first of two PreBuildCommands failed and the run has ended
C5_Witness ==
    /\ entry = "Build"
    /\ Len(BuildConfig.PreBuildCommands) = 2
    /\ Len(BuildConfig.PostBuildCommands) > 0
    /\ pc = "exit"
    /\ \E k \in At("pre") : Failed(k) /\ log[k].idx = 1

\* ------------------------------------------------------------------- C6
\* C6: with RunTests = false a Build run issues no test command and nothing
\* in the directory of the fixed internal project, whatever TestSkynet is.
C6_NoTestsWithoutRunTests ==
    (entry = "Build" /\ ~BuildConfig.RunTests) =>
        \A k \in Positions :
            /\ ~IsGoTest(log[k].cmd)
            /\ log[k].dir # SkynetDir

\* RunTests = false, TestSkynet = true, and the run went past the build
C6_Witness ==
    /\ entry = "Build"
    /\ ~BuildConfig.RunTests
    /\ BuildConfig.TestSkynet
    /\ outcome = "returned"
    /\ \E k \in At("buildProject") : log[k].ret = "ok"

\* ------------------------------------------------------------------- C7
\* C7: with RunTests and TestSkynet set, a Build run in which every command
\* succeeded has issued, after the build command and before the first
\* PostBuildCommand: the project's test, the fetch for the internal
\* project, its recursive test, in this order.  With TestSkynet = false
\* nothing is ever issued in the internal project's directory.
C7_TestSkynetOrder ==
    LET paths == Only({"ExecPath"})
    IN /\ (/\ entry = "Build"
           /\ BuildConfig.RunTests
           /\ BuildConfig.TestSkynet
           /\ outcome = "returned"
           /\ valid)
          => /\ Len(paths) = 5
             /\ paths[2].cmd = GoInstallCmd
             /\ paths[3].cmd = <<"go", "test">>
             /\ paths[3].dir = AppDir
             /\ paths[4].cmd = GoGetCmd
             /\ paths[4].dir = SkynetDir
             /\ paths[5].cmd = <<"go", "test", "./...">>
             /\ paths[5].dir = SkynetDir
             /\ \A k \in At("post"), m \in Ops({"ExecPath"}) : m < k
       /\ (entry = "Build" /\ ~BuildConfig.TestSkynet)
          => \A k \in Positions : log[k].dir # SkynetDir

\* a complete run with both flags set and a PostBuildCommand issued
C7_Witness ==
    /\ entry = "Build"
    /\ BuildConfig.RunTests
    /\ BuildConfig.TestSkynet
    /\ outcome = "returned"
    /\ valid
    /\ At("post") # {}
    /\ At("testSkynetTest") # {}

\* ------------------------------------------------------------------- C8
\* C8: a dependency fetch is issued only after Checkout was called and has
\* returned; each of the four environment variables is set before the
\* first build command and is set only once.
C8_CheckoutAndEnvFirst ==
    /\ \A k \in Positions :
          log[k].cmd = GoGetCmd =>
             \E m \in Ops({"Checkout"}) : m < k /\ log[m].ret = "ok"
    /\ \A n \in EnvNames :
          /\ Cardinality({m \in Ops({"SetEnv"}) : log[m].cmd[1] = n}) <= 1
          /\ \A k \in Positions :
                log[k].site \in BuildSites =>
                   \E m \in Ops({"SetEnv"}) : m < k /\ log[m].cmd[1] = n
          /\ \A m \in Ops({"SetEnv"}), k \in Positions :
                log[k].site \in BuildSites => m < k

\* a fetch has been issued for the internal project, after a PreBuildCommand
C8_Witness ==
    /\ At("pre") # {}
    /\ At("updateDependencies") # {}
    /\ At("testSkynetGet") # {}

\* ------------------------------------------------------------------- C9
\* C9: ProjectPath is assigned at most once, never in a run whose
\* import-path derivation failed, and fetch, build and primary test run in
\* the directory based on that same value.
C9_ProjectPathOnceAfterDerivation ==
    /\ projectPathWrites <= 1
    /\ (\E k \in Ops({"ImportPathFromRepo"}) : Failed(k))
          => projectPathWrites = 0 /\ projectPath = <<>>
    /\ \A k \in At("updateDependencies") \cup At("buildProject")
                    \cup At("runTests") :
          log[k].dir = Join(<<projectPath, BuildConfig.AppPath>>)

\* ------------------------------------------------------------------ C10
\* the transfers attempted so far, in order
Transfers == Only({"cp", "scp"})

\* C10: transfers are attempted one at a time in list order; a failed
\* transfer is the last one attempted and aborts the run; a completed
\* transfer stays as it is (nothing undoes it).
C10_TransfersInOrderFailFast ==
    /\ [](\A k \in 1..Len(Transfers) :
            /\ Transfers[k].idx \in 1..Len(hosts)
            /\ k < Len(Transfers) =>
                  /\ Transfers[k].idx < Transfers[k + 1].idx
                  /\ Transfers[k].ret = "ok"
            /\ Transfers[k].ret = "err" => pc = "exit" /\ outcome = "panicked")
    /\ [][\A k \in 1..Len(Transfers) :
            Transfers[k].ret = "ok" =>
               Len(Transfers') >= k /\ Transfers'[k] = Transfers[k]]_vars

\* of three supported hosts the first was served and the second failed
C10_Witness ==
    /\ Len(hosts) = 3
    /\ \A k \in 1..Len(hosts) : Strategy(hosts[k]) # "none"
    /\ Len(Transfers) = 2
    /\ Transfers[1].ret = "ok"
    /\ Transfers[2].ret = "err"
    /\ pc = "exit"

\* ------------------------------------------------------------------ C11
\* the iteration of deploy for position k is over
DeployedPast(k) ==
    entry # "Build" /\ pc \in {"deploy", "close", "exit"} /\ i > k

\* C11: for a local deploy host, a local build host gives one cp from
\* Jail/bin/base(AppPath) to DeployPath/BinaryName; a remote build host
\* gives one scp from User@host:Jail/bin/base(AppPath), host and port taken
\* from splitHostPort(Host), to the same destination.  One transfer per host.
C11_TransferPerLocalHost ==
    LET source == BuildConfig.Jail \o <<"bin">>
                     \o <<BuildConfig.AppPath[Len(BuildConfig.AppPath)]>>
        target == DeployConfig.DeployPath \o DeployConfig.BinaryName
        hp == splitHostPort(BuildConfig.Host)
        local == BuildConfig.Host \in {Localhost, Loopback, EmptyString}
    IN \A k \in 1..Len(hosts) :
          LET made == {m \in Ops({"cp", "scp"}) : log[m].idx = k}
          IN /\ Cardinality(made) <= 1
             /\ (DeployedPast(k) /\ hosts[k] = Localhost) => made # {}
             /\ \A m \in made :
                   /\ hosts[k] = Localhost
                   /\ local => /\ log[m].op = "cp"
                               /\ log[m].argv = <<source, target>>
                   /\ ~local =>
                         /\ log[m].op = "scp"
                         /\ log[m].argv =
                               <<<<"-P">>, hp[2],
                                 BuildConfig.User \o <<"@">> \o hp[1]
                                     \o <<":">> \o source,
                                 target>>

\* a copy was pulled from a remote build host whose spec names a port
C11_Witness ==
    /\ \E m \in Ops({"scp"}) :
          /\ log[m].ret = "ok"
          /\ log[m].argv[2] = <<"2", "2">>
          /\ log[m].argv[3] = <<"u", "@", "h", ":", "j", "bin", "myapp">>
          /\ log[m].argv[4] = <<"out", "app">>
    /\ DeployedPast(1)

\* ------------------------------------------------------------------ C12
\* the three host values that name the local machine, written out
LocalNames ==
    {<<>>,
     <<"l", "o", "c", "a", "l", "h", "o", "s", "t">>,
     <<"1", "2", "7", ".", "0", ".", "0", ".", "1">>}

\* C12: isHostLocal(h) holds exactly for "", "localhost" and "127.0.0.1";
\* newBuilder takes the local terminal exactly for such a Host, and
\* otherwise the remote one, on which Connect is called once, before any
\* other call.
C12_LocalHostsAndBackend ==
    /\ isHostLocal(BuildConfig.Host) <=> BuildConfig.Host \in LocalNames
    /\ \A k \in 1..Len(hosts) : isHostLocal(hosts[k]) <=> hosts[k] \in LocalNames
    /\ term = "LocalTerminal" =>
          BuildConfig.Host \in LocalNames /\ Ops({"Connect"}) = {}
    /\ term = "SSHConn" =>
          BuildConfig.Host \notin LocalNames /\ Ops({"Connect"}) = {1}
    /\ term = "nil" => log = <<>>

\* a host that only starts like a local name got a connected remote terminal
C12_Witness ==
    /\ BuildConfig.Host = Localhost \o <<":", "2", "2">>
    /\ term = "SSHConn"
    /\ log[1].ret = "ok"
    /\ Ops({"Exec"}) # {}

\* ------------------------------------------------------------------ C13
\* the positions of the separator in the build host spec
Colons == {k \in 1..Len(BuildConfig.Host) : BuildConfig.Host[k] = ":"}

\* C13: a spec without ':' splits into itself and port "22"; a spec h:p
\* with one ':' splits into h and p; so "22" comes back only as the default
\* of a spec without port part or as the port part written in the spec.
\* The port handed to scp is that port.
C13_SplitHostPort ==
    LET s == BuildConfig.Host
        got == splitHostPort(s)
    IN /\ Colons = {} => got = <<s, <<"2", "2">>>>
       /\ \A k \in Colons :
             Colons = {k} =>
                got = <<SubSeq(s, 1, k - 1), SubSeq(s, k + 1, Len(s))>>
       /\ (got[2] = <<"2", "2">> /\ Colons # {}) =>
             \E k \in Colons :
                /\ \A m \in Colons : k <= m
                /\ Len(s) >= k + 2
                /\ SubSeq(s, k + 1, k + 2) = <<"2", "2">>
       /\ \A m \in Ops({"scp"}) :
             /\ Colons = {} => log[m].argv[2] = <<"2", "2">>
             /\ \A k \in Colons :
                   Colons = {k} => log[m].argv[2] = SubSeq(s, k + 1, Len(s))

\* scp ran for a build host spec with one ':' and a port that is not 22
C13_Witness ==
    /\ BuildConfig.Host = <<"h", ":", "2">>
    /\ \E m \in Ops({"scp"}) : log[m].argv[2] = <<"2">>

\* ------------------------------------------------------------------ C14
\* the probes made so far
Probes == UNION {At(ProbeSites[k]) : k \in 1..NumProbes}

\* C14: in a Build run with a failed probe nothing follows the probes but
\* Close: no derivation, listing, mkdir, Checkout, SetEnv, command, fetch,
\* build or test.
C14_FailedProbeStopsBuild ==
    (entry = "Build" /\ \E k \in Probes : Failed(k)) =>
        /\ \A m \in Positions :
              /\ log[m].op \in {"Connect", "Exec", "Close"}
              /\ log[m].op = "Exec" => m \in Probes
              /\ log[m].op = "Close" =>
                    /\ m = Len(log)
                    /\ Cardinality(Probes) = NumProbes
                    /\ \A k \in Probes : k < m
        /\ Cardinality(Ops({"Exec"})) <= NumProbes

\* the second probe failed and the run is over, the terminal closed
C14_Witness ==
    /\ entry = "Build"
    /\ \E k \in At("probeGoRoot") : Failed(k)
    /\ \E k \in At("probeJail") : log[k].ret = "ok"
    /\ Len(BuildConfig.PreBuildCommands) > 0
    /\ pc = "exit"
    /\ Ops({"Close"}) # {}

\* ------------------------------------------------------------------ C15
\* C15: the terminal is created at most once, Close is called on it at most
\* once, and Close is the last call of the run: no Exec, ExecPath or SetEnv
\* follows it.
C15_OneBackendOneClose ==
    /\ [](/\ Cardinality(Ops({"Close"})) <= 1
          /\ \A k \in Ops({"Close"}) : k = Len(log) /\ term # "nil")
    /\ [][/\ term # "nil" => term' = term
          /\ Ops({"Close"}) # {} => log' = log]_vars

\* a full build that set the environment, ran commands and closed
C15_Witness ==
    /\ entry = "Build"
    /\ term = "SSHConn"
    /\ Ops({"SetEnv"}) # {}
    /\ At("post") # {}
    /\ Ops({"Close"}) # {}
    /\ pc = "exit"

\* ------------------------------------------------------------------ C16
\* C16: mkdir is issued exactly when the listing of ProjectPath failed; a
\* failed mkdir aborts the run with no Checkout; a failed derivation leaves
\* out listing, mkdir and Checkout; otherwise Checkout is called once, with
\* (AppRepo, RepoBranch, ProjectPath), whether the directory existed or was
\* just created.
C16_CheckoutStage ==
    LET ls == At("lsProject")
        mk == At("mkdir")
        co == Ops({"Checkout"})
        der == Ops({"ImportPathFromRepo"})
    IN /\ Cardinality(ls) <= 1 /\ Cardinality(mk) <= 1 /\ Cardinality(co) <= 1
       /\ ls # {} => \E k \in der : log[k].ret = "ok"
       /\ mk # {} => \E k \in ls : Failed(k)
       /\ (\E k \in ls : Failed(k)) => mk # {} \/ (pc = "mkdir" /\ ~pending)
       /\ (\E k \in mk : Failed(k)) => co = {} /\ outcome = "panicked"
       /\ (\E k \in der : Failed(k)) =>
             ls = {} /\ mk = {} /\ co = {} /\ outcome = "panicked"
       /\ ((\E k \in ls : log[k].ret = "ok") \/ (\E k \in mk : log[k].ret = "ok"))
             => co # {} \/ (pc = "checkout" /\ ~pending)
       /\ \A k \in co :
             /\ log[k].cmd = <<BuildConfig.AppRepo, BuildConfig.RepoBranch>>
             /\ log[k].dir = BuildConfig.Jail \o <<"src">> \o ImportPath
             /\ log[k].dir = projectPath
             /\ \A m \in ls \cup mk : m < k

\* the directory was missing, was created, and Checkout has returned
C16_Witness ==
    /\ \E k \in At("lsProject") : Failed(k)
    /\ \E k \in At("mkdir") : log[k].ret = "ok"
    /\ \E k \in Ops({"Checkout"}) : log[k].ret = "ok"

\* ------------------------------------------------------------------ C17
\* the calls runCommands has made for one of the two lists
Issued(site) == SelectSeq(log, LAMBDA e : e.site = site)

\* runCommands(list) has returned in this run
RanAll(site) ==
    IF site = "pre" THEN At("updateDependencies") # {}
    ELSE entry = "Build" /\ valid /\ Ops({"Close"}) # {}

\* C17: runCommands issues the commands of its list in order, each position
\* at most once, the next one only after the one before returned without
\* error, a failed one never again; it returns once all were issued, and
\* for an empty list it issues nothing and returns.
C17_CommandsInOrder ==
    \A site \in {"pre", "post"} :
        LET list == CommandsOf(site)
            done == Issued(site)
        IN /\ Len(done) <= Len(list)
           /\ \A k \in 1..Len(done) :
                 /\ done[k].idx = k
                 /\ done[k].op = "Exec"
                 /\ done[k].cmd = <<list[k]>>
                 /\ k < Len(done) => done[k].ret = "ok"
                 /\ done[k].ret = "err" => outcome = "panicked"
           /\ RanAll(site) =>
                 /\ Len(done) = Len(list)
                 /\ \A k \in 1..Len(done) : done[k].ret = "ok"
           /\ Len(list) = 0 => pc # site

\* both lists have two commands and the second PostBuildCommand failed
C17_Witness ==
    /\ Len(Issued("pre")) = 2
    /\ Len(Issued("post")) = 2
    /\ Issued("post")[2].ret = "err"
    /\ pc = "exit"

\* ------------------------------------------------------------------ C18
Succeeded(site) == \E k \in At(site) : log[k].ret = "ok"

\* C18: a PostBuildCommand is issued only after the fetch and the build
\* succeeded and, with RunTests, after the test succeeded and, with
\* TestSkynet too, the internal project's fetch and test; a failed primary
\* test leaves the internal project untouched.
C18_PostOnlyAfterSuccess ==
    /\ At("post") # {} =>
          /\ Succeeded("updateDependencies")
          /\ Succeeded("buildProject")
          /\ BuildConfig.RunTests =>
                /\ Succeeded("runTests")
                /\ BuildConfig.TestSkynet =>
                      Succeeded("testSkynetGet") /\ Succeeded("testSkynetTest")
    /\ (\E k \in At("runTests") : Failed(k)) =>
          \A m \in Positions : log[m].dir # SkynetDir

\* with both flags set a PostBuildCommand has been issued
C18_Witness ==
    /\ BuildConfig.RunTests
    /\ BuildConfig.TestSkynet
    /\ At("post") # {}

\* ------------------------------------------------------------------ C19
DeployFrame ==
    /\ entry = "Deploy" =>
          /\ Ops({"Exec", "ExecPath", "SetEnv"}) = {}
          /\ hosts = <<<<"l", "o", "c", "a", "l", "h", "o", "s", "t">>>>
          /\ Len(Transfers) <= 1
          /\ \A k \in 1..Len(Transfers) : Transfers[k].idx = 1
    /\ entry = "Build" => Transfers = <<>>

\* C19 as stated: a Deploy run issues no Exec, ExecPath or SetEnv and, by
\* its end, has attempted exactly one transfer, for "localhost"; a Build run
\* attempts none.
C19_DeployExactlyOneTransfer ==
    /\ DeployFrame
    /\ (entry = "Deploy" /\ pc = "exit") => Len(Transfers) = 1

\* C19 as amended: a Deploy run issues no Exec, ExecPath or SetEnv and
\* attempts at most one transfer, for "localhost": exactly one once
\* newBuilder has returned (the run is in deploy with the transfer issued,
\* is about to close, or has returned normally), none when newBuilder
\* panics; a Build run attempts none.
C19_DeployOneTransferPastNewBuilder ==
    /\ DeployFrame
    /\ (/\ entry = "Deploy"
        /\ \/ pc = "deploy" /\ pending
           \/ pc = "close"
           \/ outcome = "returned")
          => Len(Transfers) = 1
    /\ (entry = "Deploy" /\ pc = "exit" /\ Len(Transfers) = 0)
          => outcome = "panicked" /\ Ops({"Close"}) = {}

\* a Deploy run copied the binary, closed the terminal and returned
C19_Witness ==
    /\ entry = "Deploy"
    /\ outcome = "returned"
    /\ Len(Transfers) = 1
    /\ Transfers[1].ret = "ok"
    /\ Ops({"Close"}) # {}

\* ------------------------------------------------------------------ C20
\* C20: if every call that is issued returns, every run ends (returns or
\* panics); and while a call has not returned the run does nothing else:
\* no further call is issued and the terminal is not closed, so a call
\* that never returns stalls the run for good.
C20_TerminatesOrStalls ==
    /\ <>(pc = "exit")
    /\ [][pending =>
            /\ ~pending'
            /\ Len(log') = Len(log)
            /\ \A k \in 1..(Len(log) - 1) : log'[k] = log[k]
            /\ log'[Len(log)].ret # "pending"]_vars

\* a build with two commands in each list ran to its end
C20_Witness ==
    /\ entry = "Build"
    /\ Len(BuildConfig.PreBuildCommands) = 2
    /\ Len(BuildConfig.PostBuildCommands) = 2
    /\ Len(Issued("post")) = 2
    /\ pc = "exit"
    /\ outcome = "returned"

====
